---------------------------- MODULE Spec2Model ----------------------------
(***************************************************************************)
(* A model of the commissionCreator Lightning web component                *)
(* (force-app/main/default/lwc/commissionCreator/commissionCreator.js):    *)
(* the commission grid (matrixData), its reconciliation against existing   *)
(* commission records, the four grid mutations, the totals pass, the       *)
(* submission of the selected cells and the events the component           *)
(* dispatches.                                                             *)
(*                                                                         *)
(* Numbers.  A JavaScript number is modelled as an exact decimal with two  *)
(* fraction digits, stored as an integer count of hundredths (15 is 1500,  *)
(* 0.15 is 15).  Every value the model feeds in is chosen so that the      *)
(* products and quotients the code forms are again such decimals, so the   *)
(* arithmetic is exact; IEEE-754 rounding is not modelled.  NaN and        *)
(* undefined are one value outside the numeric range.                      *)
(***************************************************************************)
EXTENDS Integers, Sequences, FiniteSets, TLC

(***************************************************************************)
(* Bounds of the model.                                                    *)
(***************************************************************************)
\* the opportunity holds at most this many line items
MaxLineItems == 2
\* the opportunity holds at most this many team members
MaxTeamMembers == 2
\* the backend holds at most this many existing commission records
MaxRecords == 2
\* the grid handlers run while refreshKey is below this value
MaxRefresh == 2
\* at most this many deleteExistingCommissions calls are in flight at once, and
\* at most this many submissions (a createUpdateCommissions call or the close
\* timer that follows its success)
MaxInFlight == 1

(***************************************************************************)
(* JavaScript values.                                                      *)
(***************************************************************************)
Scale == 10 * 10

\* the number n, n an integer
Num(n) == n * Scale

\* undefined, null or NaN where a number is expected
NaN == 0 - (Scale * Scale * Scale)

\* null where an identifier is expected
Null == "null"

\* a * b and a / b on numbers
Mul(a, b) == (a * b) \div Scale

Div(a, b) == (a * Scale) \div b

\* x || 0 on a number: undefined, null, NaN and 0 give 0
OrZero(x) == IF x = NaN \/ x = 0 THEN 0 ELSE x

\* !s on a string or a missing attribute
Falsy(s) == s = "" \/ s = Null

Take(s, n) == SubSeq(s, 1, IF n < Len(s) THEN n ELSE Len(s))


\* the sequences of at most n distinct members of S
InjSeqs(S, n) ==
    UNION {{s \in [1..k -> S] : \A i, j \in 1..k : i # j => s[i] # s[j]} : k \in 0..n}

(***************************************************************************)
(* What the Apex controller can answer.  getOpportunityData answers with   *)
(* the first line items and team members of the two pools below, in pool   *)
(* order; record identifiers are unique in an answer.  A                   *)
(* missing Line_Margin__c, defaultRate or Commission_Percentage__c is NaN, *)
(* a missing Product2 is Null.                                             *)
(***************************************************************************)
LineItemPool ==
    << [Id |-> "L2", Name |-> "Item 2", Product2Name |-> Null, Line_Margin__c |-> NaN],
       [Id |-> "L1", Name |-> "Item 1", Product2Name |-> "Widget", Line_Margin__c |-> Num(1000)],
       [Id |-> "L3", Name |-> "Item 3", Product2Name |-> "Gadget", Line_Margin__c |-> Num(200)] >>

TeamMemberPool ==
    << [userId |-> "U1", name |-> "Ann", role |-> "Owner", defaultRate |-> Num(10)],
       [userId |-> "U2", name |-> "Bob", role |-> "Sales Rep", defaultRate |-> Num(20)],
       [userId |-> "U3", name |-> "Cid", role |-> "Sales Rep", defaultRate |-> NaN] >>

CommissionList ==
    << [Id |-> "C1", OpportunityLineItem__c |-> "L1", User__c |-> "U1", Commission_Percentage__c |-> 15],
       [Id |-> "C3", OpportunityLineItem__c |-> "L2", User__c |-> "U2", Commission_Percentage__c |-> Num(1)],
       [Id |-> "C2", OpportunityLineItem__c |-> "L1", User__c |-> "U1", Commission_Percentage__c |-> Num(15)],
       [Id |-> "C4", OpportunityLineItem__c |-> "L1", User__c |-> "U2", Commission_Percentage__c |-> NaN] >>

CommissionPool == {CommissionList[i] : i \in 1..Len(CommissionList)}

\* the answers of getOpportunityData
OppDataChoices ==
    {[lineItems |-> Take(LineItemPool, n), teamMembers |-> Take(TeamMemberPool, m)] :
        n \in 0..MaxLineItems, m \in 0..MaxTeamMembers}

\* the answers of getExistingCommissions: the records of the pool in any order
ExistingChoices == InjSeqs(CommissionPool, MaxRecords)

\* the answers of getExistingCommissions that list the records in pool order
ExistingPrefixes == {Take(CommissionList, n) : n \in 0..MaxRecords}

\* opportunityData = {}: lineItems and teamMembers are undefined, which every
\* read of them (?.forEach, ?.length > 0, || []) treats as it treats []
EmptyOpportunityData == [lineItems |-> << >>, teamMembers |-> << >>]

\* the value of find when no element matches
NoCommission ==
    [Id |-> Null, OpportunityLineItem__c |-> Null, User__c |-> Null, Commission_Percentage__c |-> NaN]

(***************************************************************************)
(* The Reconciler.                                                         *)
(***************************************************************************)
findExistingCommission(existing, lineItemId, userId) ==
    LET hits == {i \in 1..Len(existing) :
                    /\ existing[i].OpportunityLineItem__c = lineItemId
                    /\ existing[i].User__c = userId}
    IN  IF hits = {} THEN NoCommission
        ELSE existing[CHOOSE i \in hits : \A j \in hits : i <= j]

\* percentageValue with the boundary off by one: a stored 1 is kept as 1
percentageValueStrictBoundary(teamMember, existingCommission) ==
    IF existingCommission # NoCommission /\ existingCommission.Commission_Percentage__c # NaN
    THEN IF existingCommission.Commission_Percentage__c < Num(1)
         THEN Mul(existingCommission.Commission_Percentage__c, Num(100))
         ELSE existingCommission.Commission_Percentage__c
    ELSE OrZero(teamMember.defaultRate)

\* percentageValue that forgets the team member's default rate
percentageValueNoDefault(teamMember, existingCommission) ==
    IF existingCommission # NoCommission /\ existingCommission.Commission_Percentage__c # NaN
    THEN IF existingCommission.Commission_Percentage__c <= Num(1)
         THEN Mul(existingCommission.Commission_Percentage__c, Num(100))
         ELSE existingCommission.Commission_Percentage__c
    ELSE 0

\* the percentage of a new cell (lines 78-92)
percentageValue(teamMember, existingCommission) ==
    IF existingCommission # NoCommission /\ existingCommission.Commission_Percentage__c # NaN
    THEN IF existingCommission.Commission_Percentage__c <= Num(1)
         THEN Mul(existingCommission.Commission_Percentage__c, Num(100))
         ELSE existingCommission.Commission_Percentage__c
    ELSE OrZero(teamMember.defaultRate)

\* the cell of one line item and one team member (lines 75-108)
NewCell(lineItem, teamMember, existing) ==
    LET existingCommission == findExistingCommission(existing, lineItem.Id, teamMember.userId)
    IN  [ id |-> lineItem.Id \o "-" \o teamMember.userId,
          lineItemId |-> lineItem.Id,
          userId |-> teamMember.userId,
          lineItemName |-> IF lineItem.Product2Name # Null THEN lineItem.Product2Name
                           ELSE lineItem.Name,
          teamMemberName |-> teamMember.name,
          teamMemberRole |-> teamMember.role,
          lineMargin |-> OrZero(lineItem.Line_Margin__c),
          selected |-> existingCommission # NoCommission,
          percentage |-> percentageValue(teamMember, existingCommission),
          defaultPercentage |-> OrZero(teamMember.defaultRate),
          amount |-> 0,
          existingCommissionId |-> existingCommission.Id ]

\* NewMatrix whose inner loop stops one team member short
NewMatrixShortInnerLoop(opp, existing) ==
    LET n == Len(opp.lineItems)
        m == IF Len(opp.teamMembers) > 0 THEN Len(opp.teamMembers) - 1 ELSE 0
    IN  [k \in 1..(n * m) |->
            NewCell(opp.lineItems[((k - 1) \div m) + 1],
                    opp.teamMembers[((k - 1) % m) + 1],
                    existing)]

\* NewMatrix with the loops nested the other way round: team members outside
NewMatrixTeamMembersFirst(opp, existing) ==
    LET n == Len(opp.lineItems)
        m == Len(opp.teamMembers)
    IN  [k \in 1..(n * m) |->
            NewCell(opp.lineItems[((k - 1) % n) + 1],
                    opp.teamMembers[((k - 1) \div n) + 1],
                    existing)]

\* the matrix the two nested forEach loops push (lines 70-113)
NewMatrix(opp, existing) ==
    LET n == Len(opp.lineItems)
        m == Len(opp.teamMembers)
    IN  [k \in 1..(n * m) |->
            NewCell(opp.lineItems[((k - 1) \div m) + 1],
                    opp.teamMembers[((k - 1) % m) + 1],
                    existing)]

(***************************************************************************)
(* The Totals Aggregator.                                                  *)
(***************************************************************************)
\* cellAmount that does not look at the selection
cellAmountIgnoringSelection(cell) ==
    LET decimalPercentage == Div(cell.percentage, Num(100))
    IN  Mul(cell.lineMargin, decimalPercentage)

\* cellAmount that adds to the amount the cell already holds
cellAmountAddingStored(cell) ==
    LET decimalPercentage == Div(cell.percentage, Num(100))
    IN  IF cell.selected THEN cell.amount + Mul(cell.lineMargin, decimalPercentage) ELSE 0

\* the amount calculateTotals gives a cell (lines 286-287)
cellAmount(cell) ==
    LET decimalPercentage == Div(cell.percentage, Num(100))
    IN  IF cell.selected THEN Mul(cell.lineMargin, decimalPercentage) ELSE 0

\* the matrix calculateTotals stores (lines 285-297)
withAmounts(matrix) ==
    [k \in 1..Len(matrix) |-> [matrix[k] EXCEPT !.amount = cellAmount(matrix[k])]]

RECURSIVE totalsUpTo(_, _)
\* totalComm and totalAmt after the first k cells (lines 279-294)
totalsUpTo(matrix, k) ==
    IF k = 0 THEN [totalComm |-> 0, totalAmt |-> 0]
    ELSE LET before == totalsUpTo(matrix, k - 1)
         IN  IF matrix[k].selected
             THEN [totalComm |-> before.totalComm + 1,
                   totalAmt |-> before.totalAmt + cellAmount(matrix[k])]
             ELSE before

RECURSIVE staleTotalUpTo(_, _)
\* the sum of the amounts the selected cells held before the pass
staleTotalUpTo(matrix, k) ==
    IF k = 0 THEN 0
    ELSE staleTotalUpTo(matrix, k - 1) + (IF matrix[k].selected THEN matrix[k].amount ELSE 0)

\* calculateTotals that adds up cell.amount instead of the amount just computed
calculateTotalsFromStaleAmounts(matrix) ==
    [ matrixData |-> withAmounts(matrix),
      totalCommissions |-> totalsUpTo(matrix, Len(matrix)).totalComm,
      totalAmount |-> staleTotalUpTo(matrix, Len(matrix)) ]

\* calculateTotals on a matrix: the three fields it assigns (lines 299-301)
calculateTotals(matrix) ==
    LET totals == totalsUpTo(matrix, Len(matrix))
    IN  [ matrixData |-> withAmounts(matrix),
          totalCommissions |-> totals.totalComm,
          totalAmount |-> totals.totalAmt ]

(***************************************************************************)
(* The Matrix State Store: what each handler's map makes of the matrix.    *)
(***************************************************************************)
\* toggledMatrix that also applies the default rate when it checks a cell
toggledMatrixApplyingDefault(matrix, cellId, isChecked) ==
    [k \in 1..Len(matrix) |->
        IF matrix[k].id = cellId
        THEN IF isChecked
             THEN [matrix[k] EXCEPT !.selected = isChecked,
                                    !.percentage = matrix[k].defaultPercentage]
             ELSE [matrix[k] EXCEPT !.selected = isChecked]
        ELSE matrix[k]]

\* toggledMatrix that drops the record id of a cell it unchecks
toggledMatrixForgettingRecord(matrix, cellId, isChecked) ==
    [k \in 1..Len(matrix) |->
        IF matrix[k].id = cellId
        THEN IF isChecked
             THEN [matrix[k] EXCEPT !.selected = isChecked]
             ELSE [matrix[k] EXCEPT !.selected = isChecked, !.existingCommissionId = Null]
        ELSE matrix[k]]

\* lines 173-179
toggledMatrix(matrix, cellId, isChecked) ==
    [k \in 1..Len(matrix) |->
        IF matrix[k].id = cellId
        THEN [matrix[k] EXCEPT !.selected = isChecked]
        ELSE matrix[k]]

\* repricedMatrix that clamps the percentage to 0..100
repricedMatrixClamped(matrix, cellId, percentageInput) ==
    [k \in 1..Len(matrix) |->
        IF matrix[k].id = cellId
        THEN [matrix[k] EXCEPT !.percentage =
                 IF percentageInput < 0 THEN 0
                 ELSE IF percentageInput > Num(100) THEN Num(100) ELSE percentageInput]
        ELSE matrix[k]]

\* lines 205-211
repricedMatrix(matrix, cellId, percentageInput) ==
    [k \in 1..Len(matrix) |->
        IF matrix[k].id = cellId
        THEN [matrix[k] EXCEPT !.percentage = percentageInput]
        ELSE matrix[k]]

\* lineItemSelectedMatrix that applies the default as the team member variant does
lineItemSelectedMatrixAlwaysDefault(matrix, lineItemId, isChecked) ==
    [k \in 1..Len(matrix) |->
        IF matrix[k].lineItemId = lineItemId
        THEN IF isChecked
             THEN [matrix[k] EXCEPT !.selected = isChecked,
                                    !.percentage = matrix[k].defaultPercentage]
             ELSE [matrix[k] EXCEPT !.selected = isChecked]
        ELSE matrix[k]]

\* lines 232-242
lineItemSelectedMatrix(matrix, lineItemId, isChecked) ==
    [k \in 1..Len(matrix) |->
        IF matrix[k].lineItemId = lineItemId
        THEN IF isChecked /\ matrix[k].percentage = 0
             THEN [matrix[k] EXCEPT !.selected = isChecked,
                                    !.percentage = matrix[k].defaultPercentage]
             ELSE [matrix[k] EXCEPT !.selected = isChecked]
        ELSE matrix[k]]

\* teamMemberSelectedMatrix that keeps a non-zero percentage as the line item
\* variant does
teamMemberSelectedMatrixKeepingNonZero(matrix, userId, isChecked) ==
    [k \in 1..Len(matrix) |->
        IF matrix[k].userId = userId
        THEN IF isChecked /\ matrix[k].percentage = 0
             THEN [matrix[k] EXCEPT !.selected = isChecked,
                                    !.percentage = matrix[k].defaultPercentage]
             ELSE [matrix[k] EXCEPT !.selected = isChecked]
        ELSE matrix[k]]

\* lines 261-271
teamMemberSelectedMatrix(matrix, userId, isChecked) ==
    [k \in 1..Len(matrix) |->
        IF matrix[k].userId = userId
        THEN IF isChecked
             THEN [matrix[k] EXCEPT !.selected = isChecked,
                                    !.percentage = matrix[k].defaultPercentage]
             ELSE [matrix[k] EXCEPT !.selected = isChecked]
        ELSE matrix[k]]

(***************************************************************************)
(* parseFloat on the text of a rate input.  A text is a sequence of        *)
(* characters; the value is that of its longest prefix that is a decimal   *)
(* literal (sign, digits, point, digits), NaN when there is none.          *)
(* Exponents and Infinity are not modelled; fraction digits past the       *)
(* second are dropped, and no text of the model has any.                   *)
(***************************************************************************)
DigitChars == <<"0", "1", "2", "3", "4", "5", "6", "7", "8", "9">>

IsDigit(c) == \E d \in 1..Len(DigitChars) : DigitChars[d] = c

DigitVal(c) == (CHOOSE d \in 1..Len(DigitChars) : DigitChars[d] = c) - 1

\* how many digits text holds from position from on
RECURSIVE digitRun(_, _)
digitRun(text, from) ==
    IF from <= Len(text) /\ IsDigit(text[from]) THEN 1 + digitRun(text, from + 1) ELSE 0

\* the value of the digits text[from .. from + n - 1] as an integer
RECURSIVE digitsValue(_, _, _)
digitsValue(text, from, n) ==
    IF n = 0 THEN 0
    ELSE 10 * digitsValue(text, from, n - 1) + DigitVal(text[from + n - 1])

RECURSIVE skipSpaces(_, _)
skipSpaces(text, from) ==
    IF from <= Len(text) /\ text[from] = " " THEN skipSpaces(text, from + 1) ELSE from

parseFloat(text) ==
    LET start == skipSpaces(text, 1)
        signed == start <= Len(text) /\ text[start] \in {"-", "+"}
        sign == IF signed /\ text[start] = "-" THEN -1 ELSE 1
        intFrom == IF signed THEN start + 1 ELSE start
        intLen == digitRun(text, intFrom)
        pointAt == intFrom + intLen
        hasPoint == pointAt <= Len(text) /\ text[pointAt] = "."
        fracLen == IF hasPoint THEN digitRun(text, pointAt + 1) ELSE 0
        tenths == IF fracLen >= 1 THEN DigitVal(text[pointAt + 1]) ELSE 0
        hundredths == IF fracLen >= 2 THEN DigitVal(text[pointAt + 2]) ELSE 0
    IN  IF intLen = 0 /\ fracLen = 0 THEN NaN
        ELSE sign * (Num(digitsValue(text, intFrom, intLen)) + 10 * tenths + hundredths)

\* the texts a rate input delivers in event.target.value
PercentageTexts ==
    { <<"1", "5", "0">>, <<"-", "5">>, << >>, <<" ", "0", ".", "0", "%">> }

\* the data-line-item-id and data-user-id attributes an event can carry: the
\* template renders one row per line item and one column per team member of
\* opportunityData (matrixDisplay, lines 486-515); "" is a missing attribute
LineItemIdInputs(opp) == {opp.lineItems[i].Id : i \in 1..Len(opp.lineItems)} \cup {""}

UserIdInputs(opp) == {opp.teamMembers[i].userId : i \in 1..Len(opp.teamMembers)} \cup {""}

(***************************************************************************)
(* The events the component dispatches and the call it issues.             *)
(***************************************************************************)
\* lines 380-386
showSuccessToast(message) ==
    [event |-> "ShowToastEvent", variant |-> "success", message |-> message]

\* lines 388-394
showErrorToast(message) ==
    [event |-> "ShowToastEvent", variant |-> "error", message |-> message]

\* closeFlowAndRefresh, lines 364-377: the close event, then the navigation to
\* the record page
closeFlowAndRefresh ==
    << [event |-> "CloseActionScreenEvent", variant |-> "", message |-> ""],
       [event |-> "Navigate", variant |-> "standard__recordPage", message |-> "view"] >>

\* no createUpdateCommissions call
NoCall == [issued |-> FALSE, matrixDataJson |-> << >>]

(***************************************************************************)
(* The Submission Projector.                                               *)
(***************************************************************************)
\* this.matrixData.filter(cell => cell.selected), line 311
selectedCells(matrix) == SelectSeq(matrix, LAMBDA cell : cell.selected)

\* cellsForApex that sends the percentage as a fraction of 1
cellsForApexAsFraction(selected) ==
    [k \in 1..Len(selected) |->
        [ lineItemId |-> selected[k].lineItemId,
          userId |-> selected[k].userId,
          selected |-> selected[k].selected,
          percentage |-> Div(selected[k].percentage, Num(100)),
          amount |-> selected[k].amount ]]

\* lines 319-325
cellsForApex(selected) ==
    [k \in 1..Len(selected) |->
        [ lineItemId |-> selected[k].lineItemId,
          userId |-> selected[k].userId,
          selected |-> selected[k].selected,
          percentage |-> selected[k].percentage,
          amount |-> selected[k].amount ]]

\* what JSON.stringify writes for null, and for a number that is NaN
JsonNull == NaN - 1

\* JSON.stringify on a number: a finite number is written as it is
stringifyNumber(x) == IF x = NaN THEN JsonNull ELSE x

\* JSON.stringify(cellsForApex), line 331: the array in order, each object with
\* its five members in order
stringify(cells) ==
    [k \in 1..Len(cells) |->
        [ lineItemId |-> cells[k].lineItemId,
          userId |-> cells[k].userId,
          selected |-> cells[k].selected,
          percentage |-> stringifyNumber(cells[k].percentage),
          amount |-> stringifyNumber(cells[k].amount) ]]

\* Number.prototype.toString on a natural number
RECURSIVE toString(_)
toString(n) ==
    IF n < 10 THEN DigitChars[n + 1]
    ELSE toString(n \div 10) \o DigitChars[(n % 10) + 1]

\* Array.prototype.join('\n') on strings, "/" standing for the line break
RECURSIVE join(_)
join(strings) ==
    IF Len(strings) = 0 THEN ""
    ELSE IF Len(strings) = 1 THEN strings[1]
    ELSE strings[1] \o "/" \o join(Tail(strings))

\* the answers of createUpdateCommissions that report success
SuccessResults ==
    { [success |-> TRUE, recordsCreated |-> 1, recordsUpdated |-> 1,
       errorMessage |-> Null, partialErrors |-> << >>] }

\* the answers of createUpdateCommissions that report failure
FailureResults ==
    { [success |-> FALSE, recordsCreated |-> 0, recordsUpdated |-> 0,
       errorMessage |-> Null, partialErrors |-> << >>],
      [success |-> FALSE, recordsCreated |-> 0, recordsUpdated |-> 0,
       errorMessage |-> "Insert failed", partialErrors |-> <<"row 1", "row 2">>] }

\* the message of the success toast, lines 339-340
successMessage(result) ==
    "Successfully processed " \o toString(result.recordsCreated + result.recordsUpdated)
        \o " commission records (" \o toString(result.recordsCreated) \o " created, "
        \o toString(result.recordsUpdated) \o " updated)"

\* the message of the failure toast, lines 349-352
errorMsg(result) ==
    LET message == IF Falsy(result.errorMessage) THEN "Unknown error occurred"
                   ELSE result.errorMessage
    IN  IF Len(result.partialErrors) > 0
        THEN message \o "//Details:/" \o join(result.partialErrors)
        ELSE message

(***************************************************************************)
(* The component.                                                          *)
(***************************************************************************)
VARIABLES
    opportunityData,         \* @track opportunityData
    matrixData,              \* @track matrixData
    existingCommissions,     \* @track existingCommissions
    totalCommissions,        \* @track totalCommissions
    totalAmount,             \* @track totalAmount
    isLoading,               \* @track isLoading
    hasExistingCommissions,  \* @track hasExistingCommissions
    showDuplicateOptions,    \* @track showDuplicateOptions
    error,                   \* @track error
    refreshKey,              \* @track refreshKey
    isProcessing,            \* @track isProcessing
    loadPc,                  \* where loadData stands: "created", "fetching", "done"
    deleteCalls,             \* deleteExistingCommissions calls awaiting their answer
    commissionsCreated,      \* @api commissionsCreated
    submitCalls,             \* createUpdateCommissions calls awaiting their answer
    closeTimers,             \* setTimeout callbacks of line 344 not yet run
    closed,                  \* closeFlowAndRefresh ran: the action screen is closed
    dispatched,              \* the events the last step dispatched, in order
    apexCall,                \* the createUpdateCommissions call the last step issued
    lastEvent                \* history: the name of the handler or continuation that ran last

vars ==
    << opportunityData, matrixData, existingCommissions, totalCommissions, totalAmount,
       isLoading, hasExistingCommissions, showDuplicateOptions, error, refreshKey,
       isProcessing, loadPc, deleteCalls, commissionsCreated, submitCalls, closeTimers,
       closed, dispatched, apexCall, lastEvent >>

gridVars == << matrixData, totalCommissions, totalAmount >>

\* the fields and pending work of a submission
submitVars == << commissionsCreated, submitCalls, closeTimers, closed >>

\* a step that issues no createUpdateCommissions call and dispatches these events
Emits(events) ==
    /\ dispatched' = events
    /\ apexCall' = NoCall

\* field initialisers, lines 12-28
Init ==
    /\ opportunityData = EmptyOpportunityData
    /\ matrixData = << >>
    /\ existingCommissions = << >>
    /\ totalCommissions = 0
    /\ totalAmount = 0
    /\ isLoading = TRUE
    /\ hasExistingCommissions = FALSE
    /\ showDuplicateOptions = FALSE
    /\ error = Null
    /\ refreshKey = 0
    /\ isProcessing = FALSE
    /\ loadPc = "created"
    /\ deleteCalls = 0
    /\ commissionsCreated = "0"
    /\ submitCalls = 0
    /\ closeTimers = 0
    /\ closed = FALSE
    /\ dispatched = << >>
    /\ apexCall = NoCall
    /\ lastEvent = "constructor"

\* this.matrixData = ...; this.calculateTotals()
SetMatrix(matrix) ==
    LET totals == calculateTotals(matrix)
    IN  /\ matrixData' = totals.matrixData
        /\ totalCommissions' = totals.totalCommissions
        /\ totalAmount' = totals.totalAmount

\* initializeMatrix(), lines 69-118, reading the two fields as given
initializeMatrix(opp, existing) ==
    /\ SetMatrix(NewMatrix(opp, existing))
    /\ showDuplicateOptions' = FALSE

\* connectedCallback and loadData up to its await, lines 30-43
connectedCallback ==
    /\ loadPc = "created"
    /\ loadPc' = "fetching"
    /\ isLoading' = TRUE
    /\ error' = Null
    /\ lastEvent' = "connectedCallback"
    /\ Emits(<< >>)
    /\ UNCHANGED << opportunityData, matrixData, existingCommissions, totalCommissions,
                    totalAmount, hasExistingCommissions, showDuplicateOptions, refreshKey,
                    isProcessing, deleteCalls, submitVars >>

\* loadDataResolvedWith that raises showDuplicateOptions before it calls
\* initializeMatrix, which lowers it again
loadDataResolvedWithSignalFirst(answers) ==
    /\ loadPc = "fetching"
    /\ \E oppData \in OppDataChoices, existingComm \in answers :
          /\ opportunityData' = oppData
          /\ existingCommissions' = existingComm
          /\ hasExistingCommissions' = (Len(existingComm) > 0)
          /\ initializeMatrix(oppData, existingComm)
    /\ isLoading' = FALSE
    /\ loadPc' = "done"
    /\ lastEvent' = "loadDataResolved"
    /\ Emits(<< >>)
    /\ UNCHANGED << error, refreshKey, isProcessing, deleteCalls, submitVars >>

\* loadData after both fetches resolved, lines 45-58 and 64-66, the second
\* with one of the given answers
loadDataResolvedWith(answers) ==
    /\ loadPc = "fetching"
    /\ \E oppData \in OppDataChoices, existingComm \in answers :
          /\ opportunityData' = oppData
          /\ existingCommissions' = existingComm
          /\ hasExistingCommissions' = (Len(existingComm) > 0)
          /\ SetMatrix(NewMatrix(oppData, existingComm))
          /\ showDuplicateOptions' = (Len(existingComm) > 0)
    /\ isLoading' = FALSE
    /\ loadPc' = "done"
    /\ lastEvent' = "loadDataResolved"
    /\ Emits(<< >>)
    /\ UNCHANGED << error, refreshKey, isProcessing, deleteCalls, submitVars >>

loadDataResolved == loadDataResolvedWith(ExistingPrefixes)

loadDataResolvedAnyOrder == loadDataResolvedWith(ExistingChoices)

\* loadDataRejected without the finally block: isLoading stays as it was
loadDataRejectedStillLoading ==
    /\ loadPc = "fetching"
    /\ error' = "Error loading data"
    /\ Emits(<< showErrorToast("Error loading data") >>)
    /\ loadPc' = "done"
    /\ lastEvent' = "loadDataRejected"
    /\ UNCHANGED << opportunityData, matrixData, existingCommissions, totalCommissions,
                    totalAmount, isLoading, hasExistingCommissions, showDuplicateOptions,
                    refreshKey, isProcessing, deleteCalls, submitVars >>

\* loadData after a fetch rejected, lines 60-66
loadDataRejected ==
    /\ loadPc = "fetching"
    /\ error' = "Error loading data"
    /\ Emits(<< showErrorToast("Error loading data") >>)
    /\ isLoading' = FALSE
    /\ loadPc' = "done"
    /\ lastEvent' = "loadDataRejected"
    /\ UNCHANGED << opportunityData, matrixData, existingCommissions, totalCommissions,
                    totalAmount, hasExistingCommissions, showDuplicateOptions, refreshKey,
                    isProcessing, deleteCalls, submitVars >>

\* lines 127-129
handleEditExisting ==
    /\ loadPc # "created"
    /\ ~closed
    /\ initializeMatrix(opportunityData, existingCommissions)
    /\ lastEvent' = "handleEditExisting"
    /\ Emits(<< >>)
    /\ UNCHANGED << opportunityData, existingCommissions, isLoading, hasExistingCommissions,
                    error, refreshKey, isProcessing, loadPc, deleteCalls, submitVars >>

\* handleDeleteAndRecreate up to its await, lines 136-139
handleDeleteAndRecreate ==
    /\ loadPc # "created"
    /\ ~closed
    /\ deleteCalls < MaxInFlight
    /\ isProcessing' = TRUE
    /\ deleteCalls' = deleteCalls + 1
    /\ lastEvent' = "handleDeleteAndRecreate"
    /\ Emits(<< >>)
    /\ UNCHANGED << opportunityData, matrixData, existingCommissions, totalCommissions,
                    totalAmount, isLoading, hasExistingCommissions, showDuplicateOptions,
                    error, refreshKey, loadPc, submitVars >>

\* deleteResolved that does not clear the stored records before it reconciles
deleteResolvedKeepingRecords ==
    /\ deleteCalls > 0
    /\ deleteCalls' = deleteCalls - 1
    /\ hasExistingCommissions' = FALSE
    /\ initializeMatrix(opportunityData, existingCommissions)
    /\ isProcessing' = FALSE
    /\ lastEvent' = "deleteResolved"
    /\ Emits(<< showSuccessToast("Existing commissions deleted. You can now create new ones.") >>)
    /\ UNCHANGED << opportunityData, existingCommissions, isLoading, error, refreshKey, loadPc,
                    submitVars >>

\* handleDeleteAndRecreate after the call resolved, lines 140-143 and 146-148
deleteResolved ==
    /\ deleteCalls > 0
    /\ deleteCalls' = deleteCalls - 1
    /\ existingCommissions' = << >>
    /\ hasExistingCommissions' = FALSE
    /\ initializeMatrix(opportunityData, << >>)
    /\ isProcessing' = FALSE
    /\ lastEvent' = "deleteResolved"
    /\ Emits(<< showSuccessToast("Existing commissions deleted. You can now create new ones.") >>)
    /\ UNCHANGED << opportunityData, isLoading, error, refreshKey, loadPc, submitVars >>

\* deleteRejected that reconciles the grid anew as the success path does
deleteRejectedResettingGrid ==
    /\ deleteCalls > 0
    /\ deleteCalls' = deleteCalls - 1
    /\ initializeMatrix(opportunityData, existingCommissions)
    /\ isProcessing' = FALSE
    /\ lastEvent' = "deleteRejected"
    /\ Emits(<< showErrorToast("Error deleting existing commissions") >>)
    /\ UNCHANGED << opportunityData, existingCommissions, isLoading, hasExistingCommissions,
                    error, refreshKey, loadPc, submitVars >>

\* handleDeleteAndRecreate after the call rejected, lines 144-148
deleteRejected ==
    /\ deleteCalls > 0
    /\ deleteCalls' = deleteCalls - 1
    /\ isProcessing' = FALSE
    /\ lastEvent' = "deleteRejected"
    /\ Emits(<< showErrorToast("Error deleting existing commissions") >>)
    /\ UNCHANGED << opportunityData, matrixData, existingCommissions, totalCommissions,
                    totalAmount, isLoading, hasExistingCommissions, showDuplicateOptions,
                    error, refreshKey, loadPc, submitVars >>

\* what a grid handler leaves alone
GridHandlerFrame ==
    /\ Emits(<< >>)
    /\ UNCHANGED << opportunityData, existingCommissions, isLoading, hasExistingCommissions,
                    showDuplicateOptions, error, isProcessing, loadPc, deleteCalls, submitVars >>

\* a grid handler's tail: this.matrixData = newMatrix; calculateTotals(); forceRefresh()
StoreMatrix(newMatrix) ==
    /\ refreshKey' = refreshKey + 1
    /\ SetMatrix(newMatrix)

\* lines 157-184
handleCheckboxChange(lineItemId, userId, isChecked) ==
    /\ loadPc # "created"
    /\ ~closed
    /\ refreshKey < MaxRefresh
    /\ lastEvent' = "handleCheckboxChange"
    /\ LET cellId == lineItemId \o "-" \o userId
       IN  IF Falsy(lineItemId) \/ Falsy(userId)
           THEN UNCHANGED << gridVars, refreshKey >>
           ELSE StoreMatrix(toggledMatrix(matrixData, cellId, isChecked))
    /\ GridHandlerFrame

\* lines 191-216
handlePercentageChange(lineItemId, userId, text) ==
    /\ loadPc # "created"
    /\ ~closed
    /\ refreshKey < MaxRefresh
    /\ lastEvent' = "handlePercentageChange"
    /\ LET percentageInput == OrZero(parseFloat(text))
           cellId == lineItemId \o "-" \o userId
       IN  IF Falsy(lineItemId) \/ Falsy(userId)
           THEN UNCHANGED << gridVars, refreshKey >>
           ELSE StoreMatrix(repricedMatrix(matrixData, cellId, percentageInput))
    /\ GridHandlerFrame

\* lines 219-247
handleSelectAllForLineItem(lineItemId, isChecked) ==
    /\ loadPc # "created"
    /\ ~closed
    /\ refreshKey < MaxRefresh
    /\ lastEvent' = "handleSelectAllForLineItem"
    /\ IF Falsy(lineItemId)
       THEN UNCHANGED << gridVars, refreshKey >>
       ELSE StoreMatrix(lineItemSelectedMatrix(matrixData, lineItemId, isChecked))
    /\ GridHandlerFrame

\* lines 249-276
handleSelectAllForTeamMember(userId, isChecked) ==
    /\ loadPc # "created"
    /\ ~closed
    /\ refreshKey < MaxRefresh
    /\ lastEvent' = "handleSelectAllForTeamMember"
    /\ IF Falsy(userId)
       THEN UNCHANGED << gridVars, refreshKey >>
       ELSE StoreMatrix(teamMemberSelectedMatrix(matrixData, userId, isChecked))
    /\ GridHandlerFrame

\* lines 131-134 and 364-377
handleCancel ==
    /\ loadPc # "created"
    /\ ~closed
    /\ showDuplicateOptions' = FALSE
    /\ dispatched' = closeFlowAndRefresh
    /\ closed' = TRUE
    /\ apexCall' = NoCall
    /\ lastEvent' = "handleCancel"
    /\ UNCHANGED << opportunityData, matrixData, existingCommissions, totalCommissions,
                    totalAmount, isLoading, hasExistingCommissions, error, refreshKey,
                    isProcessing, loadPc, deleteCalls, commissionsCreated, submitCalls,
                    closeTimers >>

\* handleGenerateCommissions without the check of lines 313-316
handleGenerateCommissionsUnvalidated ==
    /\ loadPc # "created"
    /\ ~closed
    /\ submitCalls + closeTimers < MaxInFlight
    /\ dispatched' = << >>
    /\ apexCall' = [issued |-> TRUE,
                    matrixDataJson |-> stringify(cellsForApex(selectedCells(matrixData)))]
    /\ isProcessing' = TRUE
    /\ submitCalls' = submitCalls + 1
    /\ lastEvent' = "handleGenerateCommissions"
    /\ UNCHANGED << opportunityData, matrixData, existingCommissions, totalCommissions,
                    totalAmount, isLoading, hasExistingCommissions, showDuplicateOptions,
                    error, refreshKey, loadPc, deleteCalls, commissionsCreated, closeTimers,
                    closed >>

\* handleGenerateCommissions up to its return or its await, lines 307-332 and,
\* when it returns, 358-360
handleGenerateCommissions ==
    /\ loadPc # "created"
    /\ ~closed
    /\ submitCalls + closeTimers < MaxInFlight
    /\ LET selected == selectedCells(matrixData)
       IN  IF Len(selected) = 0
           THEN /\ dispatched' = << showErrorToast("Please select at least one commission to create.") >>
                /\ apexCall' = NoCall
                /\ isProcessing' = FALSE
                /\ UNCHANGED submitCalls
           ELSE /\ dispatched' = << >>
                /\ apexCall' = [issued |-> TRUE,
                                matrixDataJson |-> stringify(cellsForApex(selected))]
                /\ isProcessing' = TRUE
                /\ submitCalls' = submitCalls + 1
    /\ lastEvent' = "handleGenerateCommissions"
    /\ UNCHANGED << opportunityData, matrixData, existingCommissions, totalCommissions,
                    totalAmount, isLoading, hasExistingCommissions, showDuplicateOptions,
                    error, refreshKey, loadPc, deleteCalls, commissionsCreated, closeTimers,
                    closed >>

\* submitSucceeded that does not schedule closeFlowAndRefresh
submitSucceededWithoutTimer ==
    /\ submitCalls > 0
    /\ \E result \in SuccessResults :
          /\ commissionsCreated' = toString(result.recordsCreated + result.recordsUpdated)
          /\ Emits(<< showSuccessToast(successMessage(result)) >>)
    /\ submitCalls' = submitCalls - 1
    /\ isProcessing' = FALSE
    /\ lastEvent' = "submitSucceeded"
    /\ UNCHANGED << opportunityData, matrixData, existingCommissions, totalCommissions,
                    totalAmount, isLoading, hasExistingCommissions, showDuplicateOptions,
                    error, refreshKey, loadPc, deleteCalls, closeTimers, closed >>

\* handleGenerateCommissions after the call resolved with success, lines 334-346
\* and 358-360
submitSucceeded ==
    /\ submitCalls > 0
    /\ \E result \in SuccessResults :
          /\ commissionsCreated' = toString(result.recordsCreated + result.recordsUpdated)
          /\ Emits(<< showSuccessToast(successMessage(result)) >>)
    /\ closeTimers' = closeTimers + 1
    /\ submitCalls' = submitCalls - 1
    /\ isProcessing' = FALSE
    /\ lastEvent' = "submitSucceeded"
    /\ UNCHANGED << opportunityData, matrixData, existingCommissions, totalCommissions,
                    totalAmount, isLoading, hasExistingCommissions, showDuplicateOptions,
                    error, refreshKey, loadPc, deleteCalls, closed >>

\* submitFailed that rebuilds the grid from the loaded data after the failure
submitFailedResettingGrid ==
    /\ submitCalls > 0
    /\ \E result \in FailureResults : Emits(<< showErrorToast(errorMsg(result)) >>)
    /\ SetMatrix(NewMatrix(opportunityData, existingCommissions))
    /\ submitCalls' = submitCalls - 1
    /\ isProcessing' = FALSE
    /\ lastEvent' = "submitFailed"
    /\ UNCHANGED << opportunityData, existingCommissions, isLoading, hasExistingCommissions,
                    showDuplicateOptions, error, refreshKey, loadPc, deleteCalls,
                    commissionsCreated, closeTimers, closed >>

\* handleGenerateCommissions after the call resolved with success false, lines
\* 348-354 and 358-360
submitFailed ==
    /\ submitCalls > 0
    /\ \E result \in FailureResults : Emits(<< showErrorToast(errorMsg(result)) >>)
    /\ submitCalls' = submitCalls - 1
    /\ isProcessing' = FALSE
    /\ lastEvent' = "submitFailed"
    /\ UNCHANGED << opportunityData, matrixData, existingCommissions, totalCommissions,
                    totalAmount, isLoading, hasExistingCommissions, showDuplicateOptions,
                    error, refreshKey, loadPc, deleteCalls, commissionsCreated, closeTimers,
                    closed >>

\* handleGenerateCommissions after the call rejected, lines 356-360
submitRejected ==
    /\ submitCalls > 0
    /\ Emits(<< showErrorToast("Error creating commissions") >>)
    /\ submitCalls' = submitCalls - 1
    /\ isProcessing' = FALSE
    /\ lastEvent' = "submitRejected"
    /\ UNCHANGED << opportunityData, matrixData, existingCommissions, totalCommissions,
                    totalAmount, isLoading, hasExistingCommissions, showDuplicateOptions,
                    error, refreshKey, loadPc, deleteCalls, commissionsCreated, closeTimers,
                    closed >>

\* the callback of setTimeout, lines 344-346 and 364-377
closeFlowTimeout ==
    /\ closeTimers > 0
    /\ closeTimers' = closeTimers - 1
    /\ dispatched' = closeFlowAndRefresh
    /\ closed' = TRUE
    /\ apexCall' = NoCall
    /\ lastEvent' = "closeFlowTimeout"
    /\ UNCHANGED << opportunityData, matrixData, existingCommissions, totalCommissions,
                    totalAmount, isLoading, hasExistingCommissions, showDuplicateOptions,
                    error, refreshKey, isProcessing, loadPc, deleteCalls, commissionsCreated,
                    submitCalls >>

Next ==
    \/ connectedCallback
    \/ loadDataResolved
    \/ loadDataRejected
    \/ handleEditExisting
    \/ handleDeleteAndRecreate
    \/ deleteResolved
    \/ deleteRejected
    \/ handleCancel
    \/ handleGenerateCommissions
    \/ submitSucceeded
    \/ submitFailed
    \/ submitRejected
    \/ closeFlowTimeout
    \/ \E l \in LineItemIdInputs(opportunityData), u \in UserIdInputs(opportunityData), c \in BOOLEAN :
          handleCheckboxChange(l, u, c)
    \/ \E l \in LineItemIdInputs(opportunityData), u \in UserIdInputs(opportunityData),
          t \in PercentageTexts :
          handlePercentageChange(l, u, t)
    \/ \E l \in LineItemIdInputs(opportunityData), c \in BOOLEAN : handleSelectAllForLineItem(l, c)
    \/ \E u \in UserIdInputs(opportunityData), c \in BOOLEAN : handleSelectAllForTeamMember(u, c)

Spec == Init /\ [][Next]_vars

\* the component when every timer that was set runs in the end (setTimeout)
FairSpec == Init /\ [][Next]_vars /\ WF_vars(closeFlowTimeout)

\* the component while nobody touches the grid, over every answer of
\* getExistingCommissions
NextReconcile ==
    \/ connectedCallback
    \/ loadDataResolvedAnyOrder
    \/ loadDataRejected
    \/ handleEditExisting
    \/ handleDeleteAndRecreate
    \/ deleteResolved
    \/ deleteRejected

SpecReconcile == Init /\ [][NextReconcile]_vars

(***************************************************************************)
(* Vocabulary of the properties.                                           *)
(***************************************************************************)
Cells == 1..Len(matrixData)

LoadedLineItemIds == {opportunityData.lineItems[i].Id : i \in 1..Len(opportunityData.lineItems)}

LoadedUserIds == {opportunityData.teamMembers[i].userId : i \in 1..Len(opportunityData.teamMembers)}

\* the loaded team member with this userId
MemberOf(userId) ==
    opportunityData.teamMembers[CHOOSE i \in 1..Len(opportunityData.teamMembers) :
                                    opportunityData.teamMembers[i].userId = userId]

\* the positions of the stored records that refer to this line item and user
RecordsFor(lineItemId, userId) ==
    {i \in 1..Len(existingCommissions) :
        /\ existingCommissions[i].OpportunityLineItem__c = lineItemId
        /\ existingCommissions[i].User__c = userId}

\* the last step ran initializeMatrix: a load, edit-existing or a completed delete
JustReconciled == lastEvent \in {"loadDataResolved", "handleEditExisting", "deleteResolved"}

RECURSIVE SumOfAmounts(_)
\* the sum of the stored amounts of the cells at the positions K
SumOfAmounts(K) ==
    IF K = {} THEN 0
    ELSE LET k == CHOOSE x \in K : TRUE
         IN  matrixData[k].amount + SumOfAmounts(K \ {k})

(***************************************************************************)
(* C1: in every state the component settles in, every cell's amount is     *)
(* lineMargin * percentage / 100 when the cell is selected and 0 when it   *)
(* is not.  (amount, lineMargin and percentage are counts of hundredths,   *)
(* so amount / 100 = (lineMargin / 100) * (percentage / 100) / 100.)       *)
(***************************************************************************)
C1_AmountMatchesSelection ==
    \A k \in Cells :
        IF matrixData[k].selected
        THEN matrixData[k].amount * Scale * 100 = matrixData[k].lineMargin * matrixData[k].percentage
        ELSE matrixData[k].amount = 0

\* after a percentage edit: a selected cell of the 1000-margin line at 150% is
\* worth 1500, and an unselected cell with a non-zero percentage is worth 0
C1_Witness ==
    /\ lastEvent = "handlePercentageChange"
    /\ \E k \in Cells : /\ matrixData[k].selected
                        /\ matrixData[k].percentage = Num(150)
                        /\ matrixData[k].amount = Num(1500)
    /\ \E k \in Cells : ~matrixData[k].selected /\ matrixData[k].percentage # 0

(***************************************************************************)
(* C2: in every settled state totalCommissions is the number of selected   *)
(* cells and totalAmount is the sum of the amounts of the selected cells.  *)
(***************************************************************************)
C2_TotalsMatchGrid ==
    LET chosen == {k \in Cells : matrixData[k].selected}
    IN  /\ totalCommissions = Cardinality(chosen)
        /\ totalAmount = SumOfAmounts(chosen)

\* two selected cells with different non-zero amounts beside unselected ones,
\* after a grid mutation
C2_Witness ==
    /\ refreshKey > 0
    /\ totalCommissions = 2
    /\ \E j, k \in Cells : /\ matrixData[j].selected /\ matrixData[k].selected
                           /\ matrixData[j].amount # 0 /\ matrixData[k].amount # 0
                           /\ matrixData[j].amount # matrixData[k].amount
                           /\ totalAmount = matrixData[j].amount + matrixData[k].amount
    /\ \E k \in Cells : ~matrixData[k].selected

(***************************************************************************)
(* C3: the grid holds exactly one cell for every (line item, team member)  *)
(* pair of the loaded opportunity data and no cell for any other pair,     *)
(* after a load or reset and after any mutations that follow.              *)
(***************************************************************************)
C3_GridIsCrossProduct ==
    /\ \A l \in LoadedLineItemIds, u \in LoadedUserIds :
          Cardinality({k \in Cells : matrixData[k].lineItemId = l /\ matrixData[k].userId = u}) = 1
    /\ \A k \in Cells : /\ matrixData[k].lineItemId \in LoadedLineItemIds
                        /\ matrixData[k].userId \in LoadedUserIds

\* a 2 x 2 grid after mutations
C3_Witness ==
    /\ Cardinality(LoadedLineItemIds) = 2
    /\ Cardinality(LoadedUserIds) = 2
    /\ Len(matrixData) = 4
    /\ refreshKey = 2
    /\ lastEvent = "handleSelectAllForTeamMember"

(***************************************************************************)
(* C4: right after a reconciliation, a cell whose pair has a stored record *)
(* (the first such record in stored order) is selected, carries that       *)
(* record's id, and has percentage raw * 100 when the record's percentage  *)
(* raw is <= 1 (1 gives 100) and raw itself when raw > 1.                  *)
(***************************************************************************)
C4_ReconciledFromRecord ==
    JustReconciled =>
        \A k \in Cells :
            LET hits == RecordsFor(matrixData[k].lineItemId, matrixData[k].userId)
            IN  hits # {} =>
                  \E i \in hits :
                      /\ \A j \in hits : i <= j
                      /\ matrixData[k].selected
                      /\ matrixData[k].existingCommissionId = existingCommissions[i].Id
                      /\ LET raw == existingCommissions[i].Commission_Percentage__c
                         IN  raw # NaN =>
                               matrixData[k].percentage = IF raw <= Num(1) THEN raw * 100 ELSE raw

\* a load that reconciled a record at 0.15 into 15 and a record at 1 into 100
C4_Witness ==
    /\ lastEvent = "loadDataResolved"
    /\ \E k \in Cells, i \in 1..Len(existingCommissions) :
          /\ existingCommissions[i].Commission_Percentage__c = 15
          /\ matrixData[k].existingCommissionId = existingCommissions[i].Id
          /\ matrixData[k].percentage = Num(15)
          /\ matrixData[k].selected
    /\ \E k \in Cells, i \in 1..Len(existingCommissions) :
          /\ existingCommissions[i].Commission_Percentage__c = Num(1)
          /\ matrixData[k].existingCommissionId = existingCommissions[i].Id
          /\ matrixData[k].percentage = Num(100)

(***************************************************************************)
(* C5: right after a reconciliation, a cell whose pair has no stored       *)
(* record is unselected, has no record id and has its team member's        *)
(* default rate as percentage (0 when the member has none); with no        *)
(* stored records at all that is every cell.                               *)
(***************************************************************************)
C5_ReconciledWithoutRecord ==
    JustReconciled =>
        \A k \in Cells :
            (RecordsFor(matrixData[k].lineItemId, matrixData[k].userId) = {}) =>
                /\ ~matrixData[k].selected
                /\ matrixData[k].existingCommissionId = Null
                /\ LET rate == MemberOf(matrixData[k].userId).defaultRate
                   IN  matrixData[k].percentage = IF rate = NaN THEN 0 ELSE rate

\* a load with no existing records and a 2 x 2 grid at the default rates 10 and 20
C5_Witness ==
    /\ lastEvent = "loadDataResolved"
    /\ existingCommissions = << >>
    /\ Len(matrixData) = 4
    /\ \E k \in Cells : matrixData[k].percentage = Num(10)
    /\ \E k \in Cells : matrixData[k].percentage = Num(20)

(***************************************************************************)
(* C6: when a delete-and-recreate completes successfully, every cell of    *)
(* the resulting grid is unselected with no record id and both totals are  *)
(* 0, whatever mutations ran before or during the call.                    *)
(***************************************************************************)
C6_DeleteResetsGrid ==
    lastEvent = "deleteResolved" =>
        /\ \A k \in Cells : ~matrixData[k].selected /\ matrixData[k].existingCommissionId = Null
        /\ totalCommissions = 0
        /\ totalAmount = 0

\* a completed delete on a 2 x 2 grid after the handlers ran twice
C6_Witness ==
    /\ lastEvent = "deleteResolved"
    /\ Len(matrixData) = 4
    /\ refreshKey = 2

(***************************************************************************)
(* C7: toggleCell(lineItemId, userId, checked) sets selected = checked on  *)
(* the cell with that key (its amount follows) and changes nothing else:   *)
(* that cell's other fields and every field of every other cell stay.      *)
(***************************************************************************)
C7_ToggleFrame ==
    [][lastEvent' = "handleCheckboxChange" =>
       \A l \in LineItemIdInputs(opportunityData), u \in UserIdInputs(opportunityData),
          c \in BOOLEAN :
          handleCheckboxChange(l, u, c) =>
              /\ Len(matrixData') = Len(matrixData)
              /\ \A k \in Cells :
                    IF matrixData[k].lineItemId = l /\ matrixData[k].userId = u
                    THEN /\ matrixData'[k].selected = c
                         /\ [matrixData'[k] EXCEPT !.selected = FALSE, !.amount = 0]
                              = [matrixData[k] EXCEPT !.selected = FALSE, !.amount = 0]
                    ELSE matrixData'[k] = matrixData[k]]_vars

\* a toggle left exactly one cell selected; its percentage is an edited one
C7_Witness ==
    /\ lastEvent = "handleCheckboxChange"
    /\ refreshKey = 2
    /\ totalCommissions = 1
    /\ \E k \in Cells : /\ matrixData[k].selected
                        /\ matrixData[k].existingCommissionId = Null
                        /\ matrixData[k].percentage = Num(150)

(***************************************************************************)
(* C8: setPercentage(lineItemId, userId, value) stores value unclamped in  *)
(* the cell with that key (150 and -5 are stored as given); that cell's    *)
(* selected flag and every other cell's selected and percentage stay.      *)
(***************************************************************************)
\* the numeric texts among PercentageTexts, with the number each one writes
NumericTexts == { <<"1", "5", "0">>, <<"-", "5">> }

ValueOfText(t) == IF t = <<"1", "5", "0">> THEN Num(150) ELSE 0 - Num(5)

C8_SetPercentageExact ==
    [][lastEvent' = "handlePercentageChange" =>
       \A l \in LineItemIdInputs(opportunityData), u \in UserIdInputs(opportunityData),
          t \in PercentageTexts :
          handlePercentageChange(l, u, t) =>
              /\ Len(matrixData') = Len(matrixData)
              /\ \A k \in Cells :
                    /\ matrixData'[k].selected = matrixData[k].selected
                    /\ IF matrixData[k].lineItemId = l /\ matrixData[k].userId = u
                       THEN t \in NumericTexts => matrixData'[k].percentage = ValueOfText(t)
                       ELSE matrixData'[k].percentage = matrixData[k].percentage]_vars

\* one cell holds 150 and another holds -5 after two edits
C8_Witness ==
    /\ lastEvent = "handlePercentageChange"
    /\ \E k \in Cells : matrixData[k].percentage = Num(150)
    /\ \E k \in Cells : matrixData[k].percentage = 0 - Num(5)

(***************************************************************************)
(* C9: selectAllForLineItem(L, checked) sets selected = checked on the     *)
(* cells of L and on no other cell; with checked true a cell of L at       *)
(* percentage 0 takes its defaultPercentage and any other cell of L keeps  *)
(* its percentage; with checked false no percentage changes.               *)
(***************************************************************************)
C9_SelectAllForLineItem ==
    [][lastEvent' = "handleSelectAllForLineItem" =>
       \A l \in LineItemIdInputs(opportunityData), c \in BOOLEAN :
          handleSelectAllForLineItem(l, c) =>
              /\ Len(matrixData') = Len(matrixData)
              /\ \A k \in Cells :
                    IF matrixData[k].lineItemId = l
                    THEN /\ matrixData'[k].selected = c
                         /\ matrixData'[k].percentage =
                              IF c /\ matrixData[k].percentage = 0
                              THEN matrixData[k].defaultPercentage
                              ELSE matrixData[k].percentage
                    ELSE /\ matrixData'[k].selected = matrixData[k].selected
                         /\ matrixData'[k].percentage = matrixData[k].percentage]_vars

\* a row selected as a whole: one cell keeps a reconciled 15 that is not its
\* default, the other is at its default 20
C9_Witness ==
    /\ lastEvent = "handleSelectAllForLineItem"
    /\ refreshKey = 2
    /\ \E j, k \in Cells :
          /\ matrixData[j].lineItemId = matrixData[k].lineItemId
          /\ matrixData[j].selected /\ matrixData[k].selected
          /\ matrixData[j].percentage = Num(15) /\ matrixData[j].defaultPercentage = Num(10)
          /\ matrixData[k].percentage = Num(20) /\ matrixData[k].defaultPercentage = Num(20)
          /\ matrixData[k].existingCommissionId = Null
    /\ \E k \in Cells : ~matrixData[k].selected

(***************************************************************************)
(* C10: selectAllForTeamMember(U, checked) sets selected = checked on the  *)
(* cells of U and on no other cell; with checked true every cell of U      *)
(* takes its defaultPercentage, whatever it held; with checked false no    *)
(* percentage changes.                                                     *)
(***************************************************************************)
C10_SelectAllForTeamMember ==
    [][lastEvent' = "handleSelectAllForTeamMember" =>
       \A u \in UserIdInputs(opportunityData), c \in BOOLEAN :
          handleSelectAllForTeamMember(u, c) =>
              /\ Len(matrixData') = Len(matrixData)
              /\ \A k \in Cells :
                    IF matrixData[k].userId = u
                    THEN /\ matrixData'[k].selected = c
                         /\ matrixData'[k].percentage =
                              IF c THEN matrixData[k].defaultPercentage
                              ELSE matrixData[k].percentage
                         /\ c => matrixData'[k].percentage =
                                   IF MemberOf(u).defaultRate = NaN THEN 0
                                   ELSE MemberOf(u).defaultRate
                    ELSE /\ matrixData'[k].selected = matrixData[k].selected
                         /\ matrixData'[k].percentage = matrixData[k].percentage]_vars

\* a column selected as a whole: both of its cells are at the member's default
\* although a record had reconciled one of them to 15; the other column is not
\* selected and holds an edited 150
C10_Witness ==
    /\ lastEvent = "handleSelectAllForTeamMember"
    /\ refreshKey = 2
    /\ \E j, k \in Cells :
          /\ j # k
          /\ matrixData[j].userId = matrixData[k].userId
          /\ matrixData[j].selected /\ matrixData[k].selected
          /\ matrixData[j].percentage = matrixData[j].defaultPercentage
          /\ matrixData[k].percentage = matrixData[k].defaultPercentage
          /\ matrixData[j].existingCommissionId # Null
          /\ \E i \in 1..Len(existingCommissions) :
                /\ existingCommissions[i].Id = matrixData[j].existingCommissionId
                /\ existingCommissions[i].Commission_Percentage__c = 15
    /\ \E k \in Cells : ~matrixData[k].selected /\ matrixData[k].percentage = Num(150)

(***************************************************************************)
(* Vocabulary of the properties about submissions and events.              *)
(***************************************************************************)
\* the positions of the selected cells
SelectedPositions == {k \in Cells : matrixData[k].selected}

\* the events of this kind among those the step dispatched
DispatchedOf(events, event, variant) ==
    {i \in 1..Len(events) : events[i].event = event /\ events[i].variant = variant}

\* the step dispatched exactly one toast, an error
OneErrorToast(events) ==
    /\ Cardinality(DispatchedOf(events, "ShowToastEvent", "error")) = 1
    /\ Cardinality(DispatchedOf(events, "ShowToastEvent", "success")) = 0

\* the step dispatched the close event or the navigation
ClosesOrNavigates(events) ==
    \E i \in 1..Len(events) : events[i].event \in {"CloseActionScreenEvent", "Navigate"}

(***************************************************************************)
(* C11: a submission attempted while no cell is selected dispatches an     *)
(* error notification and issues no createUpdateCommissions call; and a    *)
(* createUpdateCommissions call is only ever issued with a non-empty list  *)
(* of cells.                                                               *)
(***************************************************************************)
C11_NoSubmitWithoutSelection ==
    [][/\ (lastEvent' = "handleGenerateCommissions" /\ SelectedPositions = {}) =>
              /\ OneErrorToast(dispatched')
              /\ ~apexCall'.issued
              /\ submitCalls' = submitCalls
       /\ apexCall'.issued => Len(apexCall'.matrixDataJson) > 0]_vars

\* a submission on a 2 x 2 grid whose cells were all unselected by the handlers
C11_Witness ==
    /\ lastEvent = "handleGenerateCommissions"
    /\ Len(matrixData) = 4
    /\ SelectedPositions = {}
    /\ existingCommissions # << >>
    /\ refreshKey > 0
    /\ ~apexCall.issued

(***************************************************************************)
(* C12: the cells a submission sends are the selected cells of the grid at *)
(* the moment of the submit, in grid order, each with its lineItemId,      *)
(* userId, selected, its percentage as stored (0-100 scale) and its amount *)
(* lineMargin * percentage / 100; no unselected cell is sent.              *)
(***************************************************************************)
C12_PayloadIsSelectedCells ==
    [][apexCall'.issued =>
         LET json == apexCall'.matrixDataJson
         IN  /\ Len(json) = Cardinality(SelectedPositions)
             /\ \A i \in 1..Len(json) : json[i].selected
             /\ \A k \in SelectedPositions :
                   LET i == Cardinality({j \in SelectedPositions : j <= k})
                   IN  /\ json[i].lineItemId = matrixData[k].lineItemId
                       /\ json[i].userId = matrixData[k].userId
                       /\ json[i].percentage = matrixData[k].percentage
                       /\ json[i].amount * Scale * 100
                            = matrixData[k].lineMargin * matrixData[k].percentage]_vars

\* the second and fourth cell of a 2 x 2 grid are sent, the fourth at 20% of
\* 1000
C12_Witness ==
    /\ apexCall.issued
    /\ Len(matrixData) = 4
    /\ SelectedPositions = {2, 4}
    /\ Len(apexCall.matrixDataJson) = 2
    /\ apexCall.matrixDataJson[2].percentage = Num(20)
    /\ apexCall.matrixDataJson[2].amount = Num(200)

(***************************************************************************)
(* C13: while a createUpdateCommissions or deleteExistingCommissions call  *)
(* is in flight isProcessing is true, and after a submission or a delete   *)
(* has completed (success, reported failure, rejection, validation         *)
(* failure) isProcessing is false, under every interleaving.               *)
(***************************************************************************)
C13_BusyWhileInFlight ==
    /\ (submitCalls > 0 \/ deleteCalls > 0) => isProcessing
    /\ (\/ lastEvent \in {"submitSucceeded", "submitFailed", "submitRejected",
                           "deleteResolved", "deleteRejected"}
        \/ lastEvent = "handleGenerateCommissions" /\ ~apexCall.issued) => ~isProcessing

(***************************************************************************)
(* C14: when the deleteExistingCommissions call rejects, one error         *)
(* notification is dispatched and the grid is not reset: the cells, the    *)
(* totals and the stored existing records are as they were before.         *)
(***************************************************************************)
C14_DeleteFailureKeepsGrid ==
    [][lastEvent' = "deleteRejected" =>
         /\ OneErrorToast(dispatched')
         /\ matrixData' = matrixData
         /\ totalCommissions' = totalCommissions
         /\ totalAmount' = totalAmount
         /\ existingCommissions' = existingCommissions]_vars

\* a rejected delete on a grid that holds a reconciled cell and an edited one
C14_Witness ==
    /\ lastEvent = "deleteRejected"
    /\ refreshKey = 2
    /\ existingCommissions # << >>
    /\ \E k \in Cells : matrixData[k].selected /\ matrixData[k].existingCommissionId # Null
    /\ \E k \in Cells : matrixData[k].percentage = Num(150)

(***************************************************************************)
(* C15: when a fetch of the load rejects, exactly one error notification   *)
(* is dispatched, the grid stays empty and isLoading is false once the     *)
(* load has finished; isLoading is false after a successful load too.      *)
(***************************************************************************)
C15_LoadFailure ==
    /\ lastEvent = "loadDataRejected" =>
          /\ OneErrorToast(dispatched)
          /\ Len(dispatched) = 1
    /\ error # Null => matrixData = << >> /\ totalCommissions = 0 /\ totalAmount = 0
    /\ loadPc = "done" => ~isLoading

\* a failed load, and edit-existing pressed after it
C15_Witness ==
    /\ error # Null
    /\ loadPc = "done"
    /\ lastEvent = "handleEditExisting"

(***************************************************************************)
(* C16: every submission the backend answers with success is eventually    *)
(* followed by the close event and the navigation, issued by the timer the *)
(* success set; and a validation failure, a reported failure or a rejected *)
(* call sets no timer and dispatches neither.                              *)
(***************************************************************************)
C16_CloseOnlyAfterSuccess ==
    /\ (lastEvent = "submitSucceeded") ~>
          (lastEvent = "closeFlowTimeout" /\ dispatched = closeFlowAndRefresh)
    /\ [][/\ closeTimers' > closeTimers => lastEvent' = "submitSucceeded"
          /\ (\/ lastEvent' \in {"submitFailed", "submitRejected"}
              \/ lastEvent' = "handleGenerateCommissions" /\ ~apexCall'.issued) =>
                 /\ closeTimers' = closeTimers
                 /\ closed' = closed
                 /\ ~ClosesOrNavigates(dispatched')]_vars

\* the timer of a successful submission has closed the flow
C16_Witness ==
    /\ lastEvent = "closeFlowTimeout"
    /\ commissionsCreated = "2"
    /\ closed
    /\ closeTimers = 0

(***************************************************************************)
(* Vocabulary of the properties about the totals pass and the grid order.  *)
(***************************************************************************)
\* the matrices the handlers hand to calculateTotals in this state: the fresh
\* matrix of initializeMatrix and what each handler's map makes of the grid
PassInputs ==
    {matrixData, NewMatrix(opportunityData, existingCommissions)}
    \cup {toggledMatrix(matrixData, matrixData[k].id, c) : k \in Cells, c \in BOOLEAN}
    \cup {repricedMatrix(matrixData, matrixData[k].id, p) : k \in Cells, p \in {0, Num(150)}}
    \cup {lineItemSelectedMatrix(matrixData, matrixData[k].lineItemId, c) : k \in Cells, c \in BOOLEAN}
    \cup {teamMemberSelectedMatrix(matrixData, matrixData[k].userId, c) : k \in Cells, c \in BOOLEAN}

\* the (lineItemId, userId) keys of a matrix, in its order
KeysOf(matrix) == [k \in 1..Len(matrix) |-> << matrix[k].lineItemId, matrix[k].userId >>]

\* the keys in load order: line items in load order, team members in load
\* order within each
KeysInLoadOrder ==
    LET n == Len(opportunityData.lineItems)
        m == Len(opportunityData.teamMembers)
    IN  [k \in 1..(n * m) |->
            << opportunityData.lineItems[((k - 1) \div m) + 1].Id,
               opportunityData.teamMembers[((k - 1) % m) + 1].userId >>]

(***************************************************************************)
(* C17: the totals pass is idempotent: run on its own output it returns    *)
(* the same grid and the same two totals; and it changes no cell's         *)
(* selected or percentage.                                                 *)
(***************************************************************************)
C17_TotalsPassIdempotent ==
    \A matrix \in PassInputs :
        LET once == calculateTotals(matrix)
            twice == calculateTotals(once.matrixData)
        IN  /\ twice.matrixData = once.matrixData
            /\ twice.totalCommissions = once.totalCommissions
            /\ twice.totalAmount = once.totalAmount
            /\ Len(once.matrixData) = Len(matrix)
            /\ \A k \in 1..Len(matrix) :
                  /\ once.matrixData[k].selected = matrix[k].selected
                  /\ once.matrixData[k].percentage = matrix[k].percentage

\* a pass that has work to do: an input whose stored amounts are stale and
\* whose totals differ from the stored ones
C17_Witness ==
    /\ Len(matrixData) = 4
    /\ totalCommissions = 2
    /\ totalAmount > 0
    /\ \E matrix \in PassInputs :
          /\ calculateTotals(matrix).matrixData # matrix
          /\ calculateTotals(matrix).totalAmount > totalAmount

(***************************************************************************)
(* C18: the cells of the grid are in the Reconciler's insertion order,     *)
(* line items in load order and team members in load order within each,    *)
(* and the four mutations and the totals pass keep the sequence of         *)
(* (lineItemId, userId) keys as it is.                                     *)
(***************************************************************************)
C18_GridOrder ==
    /\ KeysOf(matrixData) = KeysInLoadOrder
    /\ \A matrix \in PassInputs :
          /\ KeysOf(matrix) = KeysOf(matrixData)
          /\ KeysOf(calculateTotals(matrix).matrixData) = KeysOf(matrix)

\* a 2 x 2 grid after a select-all on a line item: L2 was loaded before L1
C18_Witness ==
    /\ lastEvent = "handleSelectAllForLineItem"
    /\ refreshKey = 2
    /\ KeysOf(matrixData) = << <<"L2", "U1">>, <<"L2", "U2">>, <<"L1", "U1">>, <<"L1", "U2">> >>

(***************************************************************************)
(* C19: when a load settles with at least one existing commission record,  *)
(* showDuplicateOptions is on and the grid is reconciled against the       *)
(* records; when it settles with none, showDuplicateOptions is off; and it *)
(* is off after edit-existing and after a delete-and-recreate that         *)
(* succeeded.                                                              *)
(***************************************************************************)
C19_DuplicateChoiceSignal ==
    /\ lastEvent = "loadDataResolved" =>
          /\ showDuplicateOptions = (Len(existingCommissions) > 0)
          /\ \A k \in Cells :
                LET hits == RecordsFor(matrixData[k].lineItemId, matrixData[k].userId)
                IN  /\ matrixData[k].selected = (hits # {})
                    /\ hits # {} => \E i \in hits :
                                       matrixData[k].existingCommissionId = existingCommissions[i].Id
    /\ lastEvent \in {"handleEditExisting", "deleteResolved"} => ~showDuplicateOptions

\* a load that found two records for a 2 x 2 grid and raised the signal
C19_Witness ==
    /\ lastEvent = "loadDataResolved"
    /\ showDuplicateOptions
    /\ Len(existingCommissions) = 2
    /\ Len(matrixData) = 4
    /\ totalCommissions = 2

(***************************************************************************)
(* C20: in every settled state a cell's existingCommissionId is non-null   *)
(* exactly when a stored record refers to the cell's line item and user,   *)
(* and it is then the Id of the first such record; and no grid mutation    *)
(* changes a cell's existingCommissionId, defaultPercentage or lineMargin. *)
(***************************************************************************)
C20_RecordIdMatchesRecords ==
    /\ [](\A k \in Cells :
            LET hits == RecordsFor(matrixData[k].lineItemId, matrixData[k].userId)
            IN  /\ (matrixData[k].existingCommissionId # Null) = (hits # {})
                /\ hits # {} =>
                      \E i \in hits :
                          /\ \A j \in hits : i <= j
                          /\ matrixData[k].existingCommissionId = existingCommissions[i].Id)
    /\ [][lastEvent' \in {"handleCheckboxChange", "handlePercentageChange",
                          "handleSelectAllForLineItem", "handleSelectAllForTeamMember"} =>
            /\ Len(matrixData') = Len(matrixData)
            /\ \A k \in Cells :
                  /\ matrixData'[k].existingCommissionId = matrixData[k].existingCommissionId
                  /\ matrixData'[k].defaultPercentage = matrixData[k].defaultPercentage
                  /\ matrixData'[k].lineMargin = matrixData[k].lineMargin]_vars

\* after two mutations a cell that has a record is unselected and a cell that
\* has none is selected
C20_Witness ==
    /\ refreshKey = 2
    /\ Len(existingCommissions) = 2
    /\ \E k \in Cells : matrixData[k].existingCommissionId # Null /\ ~matrixData[k].selected
    /\ \E k \in Cells : matrixData[k].existingCommissionId = Null /\ matrixData[k].selected

(***************************************************************************)
(* C21: a submission never modifies the grid or the totals, whatever its   *)
(* outcome: no step of handleGenerateCommissions (its start, a validation  *)
(* failure, a success, a reported failure, a rejection, its close timer)   *)
(* changes a cell or a total, so whatever changes them while a submission  *)
(* is pending is a step of another operation of the user, and a            *)
(* submission repeated after a failure sends the same cells.               *)
(***************************************************************************)
C21_SubmissionKeepsGrid ==
    [][/\ lastEvent' \in {"handleGenerateCommissions", "submitSucceeded", "submitFailed",
                          "submitRejected", "closeFlowTimeout"} =>
             /\ matrixData' = matrixData
             /\ totalCommissions' = totalCommissions
             /\ totalAmount' = totalAmount
       /\ gridVars' # gridVars =>
             lastEvent' \in {"loadDataResolved", "handleEditExisting", "deleteResolved",
                             "handleCheckboxChange", "handlePercentageChange",
                             "handleSelectAllForLineItem", "handleSelectAllForTeamMember"}]_vars

\* a reported failure left a grid the handlers had changed: two cells selected,
\* one of them at an edited 150
C21_Witness ==
    /\ lastEvent = "submitFailed"
    /\ refreshKey = 2
    /\ totalCommissions = 2
    /\ \E k \in Cells : matrixData[k].selected /\ matrixData[k].percentage = Num(150)
    /\ matrixData # calculateTotals(NewMatrix(opportunityData, existingCommissions)).matrixData

=============================================================================
